---- MODULE Spec2Model ----
(***************************************************************************)
(* A model of earthsim/annotators.py: the geometry adapter, the tool       *)
(* initializer and the annotator classes built on GeoAnnotator.            *)
(***************************************************************************)
EXTENDS Integers, Sequences, FiniteSets, TLC

VARIABLES
    \* PointWidgetAnnotator
    groups,         \* the groups argument of __init__
    group,          \* the group parameter (the active group)
    group_data,     \* self._group_data: label -> list of indices
    sel,            \* self.point_sel_stream.index
    points,         \* the current points of self.point_stream.element (point ids)
    nextId,         \* the id the next drawn point gets
    annotated,      \* the last result of annotated_points
    act,            \* the operation that ran last
    assigned,       \* history: index -> the active group of the last add_group that had it selected
    movedFrom,      \* history: index -> the group the last add_group took it over from
    \* poly_to_geopandas
    g_geoms,        \* polys.geom(): the geometries of the argument polys
    g_columns,      \* the argument columns
    gdf,            \* the GeoDataFrame returned
    g_pc,           \* "call" before the call, "return" after it
    \* PointAnnotator
    point_columns,  \* the point_columns parameter
    pa_arg,         \* the points GeoAnnotator.__init__ built from its argument
    pa_points,      \* self.points: [id, kdims, vdims, rows]
    pa_point_stream, \* self.point_stream: the id of its source
    pa_point_table, \* self.point_table
    pa_point_link,  \* self.point_link: the id of its source
    pa_pc,          \* "args" before __init__, "built" after it
    \* PolyAnnotator
    poly_columns,   \* the poly_columns parameter
    vertex_columns, \* the vertex_columns parameter
    poly_arg,       \* the polys GeoAnnotator.__init__ built from its argument
    polys,          \* self.polys: [id, kdims, vdims, shapes]
    poly_stream,    \* self.poly_stream: [source, data]
    vertex_stream,  \* self.vertex_stream: the id of its source
    poly_table,     \* self.poly_table
    vertex_table,   \* self.vertex_table
    poly_pc,        \* "args" before __init__, then "built" or "ValueError"
    \* initialize_tools
    plot_tools,     \* surface -> the tools on its plot.state, in order
    tool_sources,   \* tool -> its sources list
    renders         \* surface -> how often it was rendered

grpVars == <<groups, group, group_data, sel, points, nextId, annotated, act,
             assigned, movedFrom>>

geoVars == <<g_geoms, g_columns, gdf, g_pc>>

paVars == <<point_columns, pa_arg, pa_points, pa_point_stream, pa_point_table, pa_point_link, pa_pc>>

polyVars == <<poly_columns, vertex_columns, poly_arg, polys, poly_stream, vertex_stream,
              poly_table, vertex_table, poly_pc>>

toolVars == <<plot_tools, tool_sources, renders>>

vars == <<grpVars, geoVars, paVars, polyVars, toolVars>>

(***************************************************************************)
(* Bounds                                                                  *)
(***************************************************************************)
MaxSel == 2
MaxPts == 3
ScenarioPoints == 8
MaxGeoms == 2
MaxCols == 2
MaxInitPoints == 3
MaxPointCols == 2
MaxShapes == 2
MaxVerts == 2
MaxPolyCols == 2
MaxRenders == 3

(***************************************************************************)
(* Helpers                                                                 *)
(***************************************************************************)
Range(s) == {s[i] : i \in DOMAIN s}

InSeq(x, s) == \E i \in DOMAIN s : s[i] = x

SeqsUpTo(S, n) == UNION {[1..k -> S] : k \in 0..n}

RECURSIVE ConcatAll(_)
ConcatAll(ss) == IF ss = <<>> THEN <<>> ELSE Head(ss) \o ConcatAll(Tail(ss))

\* the keys of a dict built from a list, in insertion order
RECURSIVE DictKeys(_)
DictKeys(s) ==
    IF s = <<>> THEN <<>>
    ELSE LET r == DictKeys(SubSeq(s, 1, Len(s) - 1))
         IN IF InSeq(s[Len(s)], r) THEN r ELSE Append(r, s[Len(s)])

(***************************************************************************)
(* Values of table cells and element dimensions                            *)
(***************************************************************************)
Num(n) == [t |-> "num", n |-> n]

Str(x) == [t |-> "str", s |-> x]

NoneVal == [t |-> "None"]

Geom(g) == [t |-> "geom", id |-> g]

Coord(crs, v) == [t |-> "coord", crs |-> crs, v |-> v]

\* the states of the parts a specification does not exercise
IdleGroup ==
    /\ groups = <<>> /\ group = NoneVal /\ group_data = <<>> /\ sel = <<>>
    /\ points = <<>> /\ nextId = 1 /\ annotated = NoneVal /\ act = "idle"
    /\ assigned = <<>> /\ movedFrom = <<>>

IdleGeo == g_geoms = <<>> /\ g_columns = <<>> /\ gdf = NoneVal /\ g_pc = "idle"

IdlePoint ==
    /\ point_columns = <<>> /\ pa_arg = NoneVal /\ pa_points = NoneVal /\ pa_point_stream = NoneVal
    /\ pa_point_table = NoneVal /\ pa_point_link = NoneVal /\ pa_pc = "idle"

IdlePoly ==
    /\ poly_columns = <<>> /\ vertex_columns = <<>> /\ poly_arg = NoneVal /\ polys = NoneVal
    /\ poly_stream = NoneVal /\ vertex_stream = NoneVal /\ poly_table = NoneVal
    /\ vertex_table = NoneVal /\ poly_pc = "idle"

IdleTools == plot_tools = <<>> /\ tool_sources = <<>> /\ renders = <<>>

(***************************************************************************)
(* PointWidgetAnnotator                                                    *)
(***************************************************************************)
GroupLists == {<<"A">>, <<"A", "B">>, <<"B", "A", "B">>, <<"A", "B", "C">>}

\* the indices a user selects in the group-tagging scenarios
ScenarioIndices == {2, 5, 7}

NoGroup == "-"

\* the order of the group labels when sorted
LabelOrd(g) == CASE g = "A" -> 1 [] g = "B" -> 2 [] g = "C" -> 3 [] OTHER -> 0

\* a filter that drops only the first selected index
RemainingButFirst(inds, new_index) == SelectSeq(inds, LAMBDA i : i # new_index[1])

\* [idx for idx in inds if idx not in new_index]
Remaining(inds, new_index) == SelectSeq(inds, LAMBDA i : ~InSeq(i, new_index))

\* a turn of the loop that appends without the membership test
AddGroupIterNoTest(gd, g, idx, new_index) ==
    [h \in DOMAIN gd |->
        IF h = g THEN Append(gd[g], idx) ELSE Remaining(gd[h], new_index)]

\* a turn of the loop that leaves the other groups alone
AddGroupIterKeepOthers(gd, g, idx, new_index) ==
    [h \in DOMAIN gd |->
        IF h = g
        THEN IF InSeq(idx, gd[g]) THEN gd[g] ELSE Append(gd[g], idx)
        ELSE gd[h]]

\* one turn of the loop of add_group over the selected indices
AddGroupIter(gd, g, idx, new_index) ==
    [h \in DOMAIN gd |->
        IF h = g
        THEN IF InSeq(idx, gd[g]) THEN gd[g] ELSE Append(gd[g], idx)
        ELSE Remaining(gd[h], new_index)]

RECURSIVE AddGroupLoop(_, _, _, _)
AddGroupLoop(gd, g, new_index, k) ==
    IF k > Len(new_index) THEN gd
    ELSE AddGroupLoop(AddGroupIter(gd, g, new_index[k], new_index), g, new_index, k + 1)

\* sort_values(self.column): the rows ordered by their group label; rows
\* of one label stay in the order of the concatenation
RECURSIVE SortByLabel(_)
SortByLabel(rows) ==
    IF rows = <<>> THEN <<>>
    ELSE LET r == rows[Len(rows)]
             s == SortByLabel(SubSeq(rows, 1, Len(rows) - 1))
             n == Cardinality({i \in DOMAIN s : LabelOrd(s[i].label) <= LabelOrd(r.label)})
         IN SubSeq(s, 1, n) \o <<r>> \o SubSeq(s, n + 1, Len(s))

\* element.iloc[idx] with the group column set to g
GroupRows(pts, idx, g) == [k \in DOMAIN idx |-> [point |-> pts[idx[k] + 1], label |-> g]]

IndexOK(pts, idx) == \A k \in DOMAIN idx : idx[k] < Len(pts)

\* annotated_points: the rows of every group, concatenated and sorted by label
annotated_points(pts, gd, keys) ==
    IF \E k \in DOMAIN keys : ~IndexOK(pts, gd[keys[k]])
    THEN [err |-> "IndexError", rows |-> <<>>]
    ELSE [err |-> "", rows |->
            SortByLabel(ConcatAll([k \in DOMAIN keys |-> GroupRows(pts, gd[keys[k]], keys[k])]))]

NoView == [err |-> "", rows |-> <<>>]

Indices == 0..(ScenarioPoints - 1)

NewGroupAnnotator(gs, n) ==
    /\ groups = gs
    /\ group = gs[1]
    /\ group_data = [g \in Range(gs) |-> <<>>]
    /\ sel = <<>>
    /\ points = [i \in 1..n |-> i]
    /\ nextId = n + 1
    /\ annotated = NoView
    /\ act = "init"
    /\ assigned = [i \in Indices |-> NoGroup]
    /\ movedFrom = [i \in Indices |-> NoGroup]

\* a Selection1D event on the scenario's points
Select ==
    \E s \in SeqsUpTo(ScenarioIndices, MaxSel) :
        /\ sel' = s
        /\ act' = "select"
        /\ UNCHANGED <<groups, group, group_data, points, nextId, annotated,
                       assigned, movedFrom, geoVars, paVars, polyVars, toolVars>>

\* a Selection1D event on the points that currently exist
SelectCurrent ==
    \E s \in SeqsUpTo(0..(Len(points) - 1), MaxSel) :
        /\ sel' = s
        /\ act' = "select"
        /\ UNCHANGED <<groups, group, group_data, points, nextId, annotated,
                       assigned, movedFrom, geoVars, paVars, polyVars, toolVars>>

\* the group selector widget
SetGroup ==
    \E g \in Range(groups) :
        /\ g # group
        /\ group' = g
        /\ act' = "set_group"
        /\ UNCHANGED <<groups, group_data, sel, points, nextId, annotated,
                       assigned, movedFrom, geoVars, paVars, polyVars, toolVars>>

add_group ==
    /\ group_data' = AddGroupLoop(group_data, group, sel, 1)
    /\ annotated' = annotated_points(points, group_data', DictKeys(groups))
    /\ act' = "add_group"
    /\ assigned' = [i \in Indices |-> IF InSeq(i, sel) THEN group ELSE assigned[i]]
    /\ movedFrom' = [i \in Indices |->
                        IF InSeq(i, sel) /\ assigned[i] # group THEN assigned[i] ELSE NoGroup]
    /\ UNCHANGED <<groups, group, sel, points, nextId, geoVars, paVars, polyVars, toolVars>>

\* a point drawn on the surface
PointAdded ==
    /\ nextId <= MaxPts
    /\ points' = Append(points, nextId)
    /\ nextId' = nextId + 1
    /\ act' = "draw"
    /\ UNCHANGED <<groups, group, group_data, sel, annotated, assigned, movedFrom,
                   geoVars, paVars, polyVars, toolVars>>

\* a point removed on the surface; the draw tool removes the selected
\* points and leaves nothing selected
PointDeleted ==
    \E k \in DOMAIN points :
        /\ points' = SubSeq(points, 1, k - 1) \o SubSeq(points, k + 1, Len(points))
        /\ act' = "delete"
        /\ sel' = <<>>
        /\ UNCHANGED <<groups, group, group_data, nextId, annotated, assigned,
                       movedFrom, geoVars, paVars, polyVars, toolVars>>

InitGroup == (\E gs \in GroupLists : NewGroupAnnotator(gs, ScenarioPoints)) /\ IdleGeo /\ IdlePoint /\ IdlePoly /\ IdleTools

NextGroup == Select \/ SetGroup \/ add_group

SpecGroup == InitGroup /\ [][NextGroup]_vars

InitAnnot ==
    /\ \E gs \in {<<"A">>, <<"A", "B">>} : \E n \in 0..(MaxPts - 1) : NewGroupAnnotator(gs, n)
    /\ IdleGeo /\ IdlePoint /\ IdlePoly /\ IdleTools

NextAnnot == SelectCurrent \/ SetGroup \/ add_group \/ PointAdded \/ PointDeleted

SpecAnnot == InitAnnot /\ [][NextAnnot]_vars

(***************************************************************************)
(* poly_to_geopandas                                                       *)
(***************************************************************************)
Geometries == {"g1", "g2"}

ColumnNames == {"Group", "Kind", "geometry"}

\* a row whose attribute columns default to None
GeoRowNone(g, columns) ==
    [c \in Range(columns) \cup {"geometry"} |-> IF c = "geometry" THEN Geom(g) ELSE NoneVal]

\* dict({c: '' for c in columns}, geometry=g)
GeoRow(g, columns) ==
    [c \in Range(columns) \cup {"geometry"} |-> IF c = "geometry" THEN Geom(g) ELSE Str("")]

\* a data frame of a list of dicts under the given column labels: the cell
\* of row k under the j-th label is the dict's value for that label
DataFrame(rows, columns) ==
    [columns |-> columns,
     cells |-> [k \in DOMAIN rows |-> [j \in DOMAIN columns |-> rows[k][columns[j]]]]]

poly_to_geopandas_result(geoms, columns) ==
    DataFrame([k \in DOMAIN geoms |-> GeoRow(geoms[k], columns)], columns \o <<"geometry">>)

poly_to_geopandas ==
    /\ g_pc = "call"
    /\ gdf' = poly_to_geopandas_result(g_geoms, g_columns)
    /\ g_pc' = "return"
    /\ UNCHANGED <<g_geoms, g_columns, grpVars, paVars, polyVars, toolVars>>

InitGeo ==
    /\ g_geoms \in SeqsUpTo(Geometries, MaxGeoms)
    /\ g_columns \in SeqsUpTo(ColumnNames, MaxCols)
    /\ gdf = NoneVal
    /\ g_pc = "call"
    /\ IdleGroup /\ IdlePoint /\ IdlePoly /\ IdleTools

NextGeo == poly_to_geopandas

SpecGeo == InitGeo /\ [][NextGeo]_vars

(***************************************************************************)
(* PointAnnotator                                                          *)
(***************************************************************************)
KDims == <<"x", "y">>

\* column names, none of them a key dimension
PointColumnNames == {"Size", "Color", "Label"}

\* the points argument: n points, with or without a Size value each
InitialPoints(vd, vals) ==
    [id |-> 0, kdims |-> KDims, vdims |-> vd,
     rows |-> [k \in DOMAIN vals |->
                 [d \in Range(KDims) \cup Range(vd) |->
                    IF d = "x" THEN Coord("source", k)
                    ELSE IF d = "y" THEN Coord("source", 10 + k)
                    ELSE vals[k]]]]

PointInputs ==
    {InitialPoints(<<>>, [k \in 1..n |-> NoneVal]) : n \in 0..MaxInitPoints}
    \cup {InitialPoints(<<"Size">>, v) : v \in SeqsUpTo({Num(0), Num(1)}, MaxInitPoints)}

\* col in element: the name of a key or value dimension
HasDimension(el, col) == InSeq(col, el.kdims) \/ InSeq(col, el.vdims)

\* an added dimension that fills the column with the insert position
add_dimension_pos(el, dim, dim_pos, dim_val) ==
    [id |-> el.id + 1, kdims |-> el.kdims,
     vdims |-> SubSeq(el.vdims, 1, dim_pos) \o <<dim>> \o SubSeq(el.vdims, dim_pos + 1, Len(el.vdims)),
     rows |-> [k \in DOMAIN el.rows |->
                 [d \in DOMAIN el.rows[k] \cup {dim} |->
                    IF d = dim THEN Num(dim_pos) ELSE el.rows[k][d]]]]

\* element.add_dimension(dim, dim_pos, dim_val, True): a new element with
\* the value dimension inserted at dim_pos and dim_val in every row
add_dimension(el, dim, dim_pos, dim_val) ==
    [id |-> el.id + 1, kdims |-> el.kdims,
     vdims |-> SubSeq(el.vdims, 1, dim_pos) \o <<dim>> \o SubSeq(el.vdims, dim_pos + 1, Len(el.vdims)),
     rows |-> [k \in DOMAIN el.rows |->
                 [d \in DOMAIN el.rows[k] \cup {dim} |->
                    IF d = dim THEN dim_val ELSE el.rows[k][d]]]]

\* the loop over point_columns
RECURSIVE AddPointColumns(_, _, _)
AddPointColumns(el, cols, k) ==
    IF k > Len(cols) THEN el
    ELSE AddPointColumns(IF HasDimension(el, cols[k]) THEN el
                         ELSE add_dimension(el, cols[k], 0, NoneVal),
                         cols, k + 1)

\* gv.project(element, projection): the key dimensions in the target system
project(el, crs) ==
    [el EXCEPT !.id = el.id + 100,
               !.rows = [k \in DOMAIN el.rows |->
                           [d \in DOMAIN el.rows[k] |->
                              IF InSeq(d, el.kdims) THEN Coord(crs, el.rows[k][d].v)
                              ELSE el.rows[k][d]]]]

\* Table(element): the element's dimensions and rows
Table(el) == [kdims |-> el.kdims, vdims |-> el.vdims, rows |-> el.rows]

PointAnnotator_init ==
    /\ pa_pc = "args"
    /\ LET extended == AddPointColumns(pa_arg, point_columns, 1)
       IN /\ pa_points' = extended
          /\ pa_point_stream' = extended.id
          /\ pa_point_table' = Table(project(extended, "PlateCarree"))
          /\ pa_point_link' = extended.id
    /\ pa_pc' = "built"
    /\ UNCHANGED <<point_columns, pa_arg, grpVars, geoVars, polyVars, toolVars>>

InitPoint ==
    /\ point_columns \in SeqsUpTo(PointColumnNames, MaxPointCols)
    /\ pa_arg \in PointInputs
    /\ pa_points = NoneVal
    /\ pa_point_stream = NoneVal
    /\ pa_point_table = NoneVal
    /\ pa_point_link = NoneVal
    /\ pa_pc = "args"
    /\ IdleGroup /\ IdleGeo /\ IdlePoly /\ IdleTools

NextPoint == PointAnnotator_init

SpecPoint == InitPoint /\ [][NextPoint]_vars

(***************************************************************************)
(* PolyAnnotator                                                           *)
(***************************************************************************)
PolyColumnNames == {"Group", "Kind"}

PolyValues == {Num(0), Num(1)}

\* the polys argument: each shape a list of vertices, each vertex with its
\* coordinates and a value for every value dimension
InitialPolys(vd, vals) ==
    [id |-> 0, kdims |-> KDims, vdims |-> vd,
     shapes |-> [s \in DOMAIN vals |->
                   [v \in DOMAIN vals[s] |->
                      [d \in Range(KDims) \cup Range(vd) |->
                         IF d = "x" THEN Coord("source", 10 * s + v)
                         ELSE IF d = "y" THEN Coord("source", 100 + 10 * s + v)
                         ELSE vals[s][v][d]]]]]

ShapeValues(vd) == SeqsUpTo([Range(vd) -> PolyValues], MaxVerts) \ {<<>>}

\* the polys arguments with the value dimensions vd
PolyInputs(vd) == {InitialPolys(vd, vals) : vals \in SeqsUpTo(ShapeValues(vd), MaxShapes)}

HasPathDimension(el, col) == InSeq(col, el.kdims) \/ InSeq(col, el.vdims)

\* paths.add_dimension(dim, dim_pos, dim_val, True)
add_path_dimension(el, dim, dim_pos, dim_val) ==
    [id |-> el.id + 1, kdims |-> el.kdims,
     vdims |-> SubSeq(el.vdims, 1, dim_pos) \o <<dim>> \o SubSeq(el.vdims, dim_pos + 1, Len(el.vdims)),
     shapes |-> [s \in DOMAIN el.shapes |->
                   [v \in DOMAIN el.shapes[s] |->
                      [d \in DOMAIN el.shapes[s][v] \cup {dim} |->
                         IF d = dim THEN dim_val ELSE el.shapes[s][v][d]]]]]

\* the loop over poly_columns
RECURSIVE AddPolyColumns(_, _, _)
AddPolyColumns(el, cols, k) ==
    IF k > Len(cols) THEN el
    ELSE AddPolyColumns(IF HasPathDimension(el, cols[k]) THEN el
                        ELSE add_path_dimension(el, cols[k], 0, Str("")),
                        cols, k + 1)

SortKey(v) == IF v.t = "num" THEN v.n ELSE 0

\* the distinct values of a set, in increasing order
RECURSIVE Sorted(_)
Sorted(S) ==
    IF S = {} THEN <<>>
    ELSE LET m == CHOOSE v \in S : \A w \in S : SortKey(v) <= SortKey(w)
         IN <<m>> \o Sorted(S \ {m})

\* dimension_values(c, expanded=False): the distinct values of every shape,
\* one shape after the other
dimension_values(el, c) ==
    ConcatAll([s \in DOMAIN el.shapes |->
                 Sorted({el.shapes[s][v][c] : v \in DOMAIN el.shapes[s]})])

\* {c: self.polys.dimension_values(c, expanded=False) for c in self.poly_columns}
PolyData(el, cols) == [c \in Range(cols) |-> dimension_values(el, c)]

\* len(set(len(v) for v in poly_data.values())) != 1
LengthsDiffer(poly_data) == Cardinality({Len(poly_data[c]) : c \in DOMAIN poly_data}) # 1

\* the data pushed to the draw stream: per key dimension, the projected
\* coordinates of every shape
StreamData(el) ==
    IF Len(el.shapes) = 0 THEN <<>>
    ELSE [kd \in Range(el.kdims) |->
            [s \in DOMAIN el.shapes |->
               [v \in DOMAIN el.shapes[s] |-> Coord("Mercator", el.shapes[s][v][kd].v)]]]

\* Table(poly_data, self.poly_columns, [])
PolyTable(poly_data, cols) ==
    [kdims |-> cols, vdims |-> <<>>, data |-> poly_data,
     nrows |-> IF DOMAIN poly_data = {} THEN 0
               ELSE Len(poly_data[CHOOSE c \in DOMAIN poly_data : TRUE])]

PolyAnnotator_init ==
    /\ poly_pc = "args"
    /\ LET extended == AddPolyColumns(poly_arg, poly_columns, 1)
           poly_data == PolyData(extended, poly_columns)
       IN IF LengthsDiffer(poly_data)
          THEN /\ poly_pc' = "ValueError"
               /\ UNCHANGED <<polys, poly_stream, vertex_stream, poly_table, vertex_table>>
          ELSE /\ poly_pc' = "built"
               /\ polys' = extended
               /\ poly_stream' = [source |-> extended.id, data |-> StreamData(extended)]
               /\ vertex_stream' = extended.id
               /\ poly_table' = PolyTable(poly_data, poly_columns)
               /\ vertex_table' = [kdims |-> extended.kdims, vdims |-> vertex_columns,
                                   rows |-> <<>>]
    /\ UNCHANGED <<poly_columns, vertex_columns, poly_arg, grpVars, geoVars, paVars, toolVars>>

InitPoly ==
    /\ poly_columns \in SeqsUpTo(PolyColumnNames, MaxPolyCols)
    /\ vertex_columns \in {<<>>, <<"Depth">>}
    /\ \E vd \in {<<>>, <<"Group">>, <<"Group", "Kind">>} : poly_arg \in PolyInputs(vd)
    /\ polys = NoneVal /\ poly_stream = NoneVal /\ vertex_stream = NoneVal
    /\ poly_table = NoneVal /\ vertex_table = NoneVal
    /\ poly_pc = "args"
    /\ IdleGroup /\ IdleGeo /\ IdlePoint /\ IdleTools

NextPoly == PolyAnnotator_init

SpecPoly == InitPoly /\ [][NextPoly]_vars

\* constructions with at least one configured per-shape column
InitPolyConfigured == InitPoly /\ poly_columns # <<>>

SpecPolyConfigured == InitPolyConfigured /\ [][NextPoly]_vars

(***************************************************************************)
(* initialize_tools                                                        *)
(***************************************************************************)
Surfaces == {"polys", "points"}

\* tools = [CheckpointTool(), RestoreTool(), ClearTool()]
AnnotatorTools == <<"checkpoint", "restore", "clear">>

\* the tools of a Points element the caller built and passed in
UserToolLists ==
    {<<>>, <<"u_checkpoint">>, <<"u_checkpoint", "u_checkpoint2">>, <<"u_restore", "u_clear">>,
     <<"u_clear", "u_checkpoint2", "u_checkpoint">>}

AllTools == Range(AnnotatorTools) \cup UNION {Range(l) : l \in UserToolLists}

ToolKind(t) ==
    CASE t \in {"checkpoint", "u_checkpoint", "u_checkpoint2"} -> "CheckpointTool"
      [] t \in {"restore", "u_restore"} -> "RestoreTool"
      [] t \in {"clear", "u_clear"} -> "ClearTool"

\* plot.state.select(type=kind)
select(tools, kind) == SelectSeq(tools, LAMBDA t : ToolKind(t) = kind)

\* if found: found[0].sources.append(cds)
Register(sources, found, cds) ==
    IF found # <<>> THEN [sources EXCEPT ![found[1]] = Append(@, cds)] ELSE sources

\* a hook that leaves the clear tool out
initialize_tools_two(sources, tools, cds) ==
    Register(Register(sources, select(tools, "CheckpointTool"), cds),
             select(tools, "RestoreTool"), cds)

initialize_tools(sources, tools, cds) ==
    Register(Register(Register(sources, select(tools, "CheckpointTool"), cds),
                      select(tools, "RestoreTool"), cds),
             select(tools, "ClearTool"), cds)

\* a surface is rendered: its plot gets a new data source and the finalize
\* hook runs on it
Render ==
    \E s \in Surfaces :
        /\ renders[s] < MaxRenders
        /\ renders' = [renders EXCEPT ![s] = @ + 1]
        /\ tool_sources' = initialize_tools(tool_sources, plot_tools[s], <<s, renders[s] + 1>>)
        /\ UNCHANGED <<plot_tools, grpVars, geoVars, paVars, polyVars>>

\* GeoAnnotator.__init__: the shape layer always gets the annotator's
\* tools, the point layer unless it was passed in as a Points element
InitTools ==
    /\ \E l \in {AnnotatorTools} \cup UserToolLists :
          plot_tools = [s \in Surfaces |-> IF s = "polys" THEN AnnotatorTools ELSE l]
    /\ tool_sources = [t \in AllTools |-> <<>>]
    /\ renders = [s \in Surfaces |-> 0]
    /\ IdleGroup /\ IdleGeo /\ IdlePoint /\ IdlePoly

NextTools == Render

SpecTools == InitTools /\ [][NextTools]_vars

(***************************************************************************)
(* Claims about PointWidgetAnnotator                                       *)
(***************************************************************************)

\* how often index i occurs in the lists of the membership map
Occurrences(i) ==
    Cardinality({q \in (DOMAIN group_data) \X (1..(MaxSel * Cardinality(Indices) + 1)) :
                    q[2] \in DOMAIN group_data[q[1]] /\ group_data[q[1]][q[2]] = i})

\* C1: after every add_group, whatever the selection (repeated indices or
\* not) and the active group, every index occurs in the member list of at
\* most one group, and at most once in that list.
C1_AtMostOneGroup == \A i \in Indices : Occurrences(i) <= 1

\* an add_group with a repeated index in the selection that also took an
\* index over from another group
C1_Witness ==
    /\ act = "add_group"
    /\ Len(sel) = 2 /\ sel[1] = sel[2]
    /\ movedFrom[sel[1]] # NoGroup
    /\ Occurrences(sel[1]) = 1

\* C2: an index assigned to group A by one add_group and later to another
\* group B by a second add_group is, after the second, not a member of A,
\* a member of B and of no other group, whatever add_group actions on other
\* indices happened in between.
C2_ReassignMoves ==
    \A i \in Indices :
        movedFrom[i] # NoGroup =>
            /\ movedFrom[i] # assigned[i]
            /\ ~InSeq(i, group_data[movedFrom[i]])
            /\ InSeq(i, group_data[assigned[i]])
            /\ \A g \in DOMAIN group_data : g # assigned[i] => ~InSeq(i, group_data[g])

\* an index taken over from another group, while a different index was
\* assigned as well
C2_Witness ==
    /\ act = "add_group"
    /\ \E i, j \in Indices :
        /\ i # j
        /\ movedFrom[i] # NoGroup
        /\ assigned[j] \notin {NoGroup, assigned[i]}
        /\ ~InSeq(j, sel)

NewMembers(old, S) == DictKeys(SelectSeq(S, LAMBDA i : i \notin Range(old)))

Without(old, S) == SelectSeq(old, LAMBDA i : i \notin Range(S))

ExpectedMap(gd, S, g) ==
    [h \in DOMAIN gd |-> IF h = g THEN gd[g] \o NewMembers(gd[g], S) ELSE Without(gd[h], S)]

Fresh == \A g \in DOMAIN group_data : group_data[g] = <<>>

\* C3: add_group with selection S and active group g turns g's list into
\* its previous list followed by the indices of S that were not yet members,
\* in selection order, and every other list into its previous list without
\* the indices of S, order kept; the keys stay. On a fresh annotator with
\* groups ['A','B'] the active group is 'A' and selection [2,5] gives
\* {'A': [2,5], 'B': []}; an empty selection changes nothing.
C3_AddGroupEffect ==
    [][/\ act = "init" => group = groups[1]
       /\ act' = "add_group" =>
            /\ DOMAIN group_data' = DOMAIN group_data
            /\ DOMAIN group_data' = Range(groups)
            /\ group_data' = ExpectedMap(group_data, sel, group)
            /\ sel = <<>> => group_data' = group_data
            /\ (groups = <<"A", "B">> /\ Fresh /\ group = "A" /\ sel = <<2, 5>>)
                  => group_data' = [g \in {"A", "B"} |-> IF g = "A" THEN <<2, 5>> ELSE <<>>]
      ]_vars

\* the scenario's result, reached by an add_group
C3_Witness ==
    /\ act = "add_group"
    /\ groups = <<"A", "B">> /\ group = "A" /\ sel = <<2, 5>>
    /\ group_data = [g \in {"A", "B"} |-> IF g = "A" THEN <<2, 5>> ELSE <<>>]

\* the current points whose index is in a group, with the group as label
MemberRows ==
    {[point |-> points[i + 1], label |-> g] :
        <<g, i>> \in {q \in (DOMAIN group_data) \X (0..(Len(points) - 1)) :
                        InSeq(q[2], group_data[q[1]])}}

\* C9: whenever the recolored point view is recomputed, after any
\* interleaving of add_group with point additions and deletions, it holds
\* exactly the current points whose index is in some group, each once and
\* labelled with its group, ordered by label; every index in the membership
\* map refers to an existing current point.
C9_ViewMatchesPoints ==
    act = "add_group" =>
        /\ \A g \in DOMAIN group_data : \A k \in DOMAIN group_data[g] :
              group_data[g][k] < Len(points)
        /\ annotated.err = ""
        /\ Range(annotated.rows) = MemberRows
        /\ Len(annotated.rows) = Cardinality(MemberRows)
        /\ \A k \in 1..(Len(annotated.rows) - 1) :
              LabelOrd(annotated.rows[k].label) <= LabelOrd(annotated.rows[k + 1].label)

(***************************************************************************)
(* Claims about poly_to_geopandas                                          *)
(***************************************************************************)
GdfShape ==
    /\ Len(gdf.cells) = Len(g_geoms)
    /\ gdf.columns = g_columns \o <<"geometry">>
    /\ \A k \in DOMAIN g_geoms :
        /\ \A j \in DOMAIN g_columns : gdf.cells[k][j] = Str("")
        /\ gdf.cells[k][Len(g_columns) + 1] = Geom(g_geoms[k])

\* C6 as stated: for every collection of geometries and every list of
\* column names the table has one row per geometry in input order, the
\* given columns followed by 'geometry', the empty string in every given
\* column and the row's geometry in the geometry column.
C6_AnyColumns == g_pc = "return" => GdfShape

\* C6, amended: the same for every list of column names that does not
\* contain 'geometry' (a given column named 'geometry' holds the geometry,
\* not the empty string).
C6_ColumnsWithoutGeometry ==
    (g_pc = "return" /\ "geometry" \notin Range(g_columns)) => GdfShape

\* two different geometries under two attribute columns
C6_Witness ==
    /\ g_pc = "return"
    /\ Len(g_geoms) = 2 /\ g_geoms[1] # g_geoms[2]
    /\ g_columns = <<"Group", "Kind">>
    /\ GdfShape

(***************************************************************************)
(* Claims about PointAnnotator                                             *)
(***************************************************************************)
LinkedToExtendedLayer ==
    /\ Len(pa_points.rows) = Len(pa_arg.rows)
    /\ Len(pa_point_table.rows) = Len(pa_arg.rows)
    /\ \A c \in Range(point_columns) : \A k \in DOMAIN pa_arg.rows :
          pa_point_table.rows[k][c] = pa_points.rows[k][c]
    /\ pa_point_stream = pa_points.id
    /\ pa_point_link = pa_points.id

KeptColumn(c) ==
    /\ \A k \in DOMAIN pa_arg.rows : pa_points.rows[k][c] = pa_arg.rows[k][c]
    /\ Cardinality({j \in DOMAIN pa_points.vdims : pa_points.vdims[j] = c})
         = Cardinality({j \in DOMAIN pa_arg.vdims : pa_arg.vdims[j] = c})
    /\ Cardinality({j \in DOMAIN pa_points.kdims : pa_points.kdims[j] = c})
         = Cardinality({j \in DOMAIN pa_arg.kdims : pa_arg.kdims[j] = c})

\* C7 as stated: after construction every column of point_columns is a
\* value dimension; a new column holds 0 for all n points, a column already
\* present keeps its values and is not added again; the table has n rows
\* with the same column values; the stream and the link refer to the
\* extended layer.
C7_NewColumnsZero ==
    pa_pc = "built" =>
        /\ \A c \in Range(point_columns) :
            /\ InSeq(c, pa_points.vdims)
            /\ IF HasDimension(pa_arg, c) THEN KeptColumn(c)
               ELSE \A k \in DOMAIN pa_points.rows : pa_points.rows[k][c] = Num(0)
        /\ LinkedToExtendedLayer

\* C7, amended: for point_columns that name no key dimension, every column
\* is a value dimension of the point layer; a new column holds None for
\* all n points (0 is the position it is inserted at); a column already
\* present keeps its values and is not added again; the table has n rows
\* with the same column values; the stream and the link refer to the
\* extended layer.
C7_NewColumnsNone ==
    pa_pc = "built" =>
        /\ \A c \in Range(point_columns) :
            /\ InSeq(c, pa_points.vdims)
            /\ IF HasDimension(pa_arg, c) THEN KeptColumn(c)
               ELSE /\ \A k \in DOMAIN pa_points.rows : pa_points.rows[k][c] = NoneVal
                    /\ Cardinality({j \in DOMAIN pa_points.vdims : pa_points.vdims[j] = c}) = 1
        /\ LinkedToExtendedLayer

\* points with a Size get a Color column as well, Size is kept
C7_Witness ==
    /\ pa_pc = "built"
    /\ point_columns = <<"Size", "Color">>
    /\ Len(pa_arg.rows) = MaxInitPoints
    /\ pa_arg.vdims = <<"Size">>
    /\ pa_points.vdims = <<"Color", "Size">>
    /\ pa_points.id # pa_arg.id
    /\ \A k \in DOMAIN pa_points.rows : pa_point_table.rows[k]["Color"] = NoneVal

(***************************************************************************)
(* Claims about PolyAnnotator                                              *)
(***************************************************************************)
\* column c has more than one distinct value among the vertices of a shape
VariesPerVertex(c) ==
    /\ InSeq(c, poly_arg.vdims)
    /\ \E s \in DOMAIN poly_arg.shapes :
          Cardinality({poly_arg.shapes[s][v][c] : v \in DOMAIN poly_arg.shapes[s]}) > 1

Constructed == poly_pc \in {"built", "ValueError"}

\* C4: constructing a PolyAnnotator raises ValueError if and only if at
\* least one column of poly_columns has more than one distinct value among
\* the vertices of some shape.
C4_RaisesIffColumnVaries ==
    Constructed =>
        (poly_pc = "ValueError" <=> \E c \in Range(poly_columns) : VariesPerVertex(c))

\* C5: constructing a PolyAnnotator with an empty poly_columns list, or
\* with an empty vertex_columns list, raises no error (no column varying
\* per vertex) and yields a per-shape table and a per-vertex table.
C5_EmptyColumnsAccepted ==
    (/\ Constructed
     /\ poly_columns = <<>> \/ vertex_columns = <<>>
     /\ ~ \E c \in Range(poly_columns) : VariesPerVertex(c))
        => /\ poly_pc = "built"
           /\ poly_table # NoneVal
           /\ vertex_table # NoneVal

NumVertices(el) == Len(ConcatAll(el.shapes))

\* C8: from the moment construction finishes, also with non-empty initial
\* shapes or points, the per-shape table has as many rows as there are
\* shapes, the per-vertex table as many rows as the shape layer has
\* vertices, and the point table as many rows as there are points.
C8_RowsMatchShapes ==
    /\ poly_pc = "built" =>
            /\ poly_table.nrows = Len(polys.shapes)
            /\ Len(vertex_table.rows) = NumVertices(polys)
    /\ pa_pc = "built" => Len(pa_point_table.rows) = Len(pa_points.rows)

(***************************************************************************)
(* Claims about initialize_tools                                           *)
(***************************************************************************)
\* t is the first tool of its kind on the plot
FirstOfKind(t, tools) ==
    \E k \in DOMAIN tools :
        /\ tools[k] = t
        /\ \A j \in 1..(k - 1) : ToolKind(tools[j]) # ToolKind(t)

Times(x, seq) == Cardinality({k \in DOMAIN seq : seq[k] = x})

\* C10: each call of initialize_tools appends the surface's data source to
\* the first checkpoint, restore and clear tool on the surface, changes
\* nothing for an absent kind and nothing else; with the annotator's three
\* tools on both layers, after one call per surface every tool's sources
\* hold both data sources, each exactly once.
C10_RegistersSources ==
    [][\A s \in Surfaces :
          renders'[s] # renders[s] =>
            /\ plot_tools' = plot_tools
            /\ \A t \in AllTools :
                  tool_sources'[t] =
                     IF FirstOfKind(t, plot_tools[s])
                     THEN Append(tool_sources[t], <<s, renders'[s]>>)
                     ELSE tool_sources[t]
            /\ (/\ plot_tools'["points"] = AnnotatorTools
                /\ \A r \in Surfaces : renders'[r] = 1)
                  => \A t \in Range(AnnotatorTools) :
                        /\ Len(tool_sources'[t]) = 2
                        /\ \A r \in Surfaces : Times(<<r, 1>>, tool_sources'[t]) = 1
      ]_vars

\* both layers of one annotator rendered once, the point layer first
C10_Witness ==
    /\ plot_tools["points"] = AnnotatorTools
    /\ \A r \in Surfaces : renders[r] = 1
    /\ \A t \in Range(AnnotatorTools) : tool_sources[t] = <<<<"points", 1>>, <<"polys", 1>>>>

====
